---- MODULE Spec2Model ----
(***************************************************************************)
(* The hazard-mitigation scoring path of rci-proto1:                       *)
(*   app/hazard_mitigation_draft2.py  initialize_dataset,                  *)
(*                                    get_best_score_with_meta,            *)
(*                                    get_zip_coverage_score, the globals  *)
(*   app/rci_aggregate.py             module initialisation (lines 36-45)  *)
(*                                    calculate_rci                        *)
(*                                                                         *)
(* Conventions.                                                            *)
(*  - A Python str is a sequence of one-character strings, so that         *)
(*    str.strip, str.upper and str.lower are computed, not assumed.        *)
(*  - A float is an exact rational [nan, n, d] (d > 0, lowest terms) or    *)
(*    NaN.  IEEE rounding error is not modelled; np.log1p is tabulated in  *)
(*    fixed point (4 decimals) at the populations of the model.            *)
(*  - A CSV is the set of its rows: identical rows collapse in             *)
(*    drop_duplicates anyway, and the row order only decides ties of the   *)
(*    sort, which sort_values resolves in any order.                       *)
(*  - The columns score_percentile and the `details` dict are left out:    *)
(*    no score or level is computed from them.                             *)
(***************************************************************************)
EXTENDS Integers, Sequences, FiniteSets, TLC

VARIABLES
    dataset,   \* the rows of the CSV read by initialize_dataset
    pc,        \* "start"; "ready" once initialize_dataset has returned,
               \* "failed" once it has raised; "answered" once
               \* get_best_score_with_meta has returned
    snap,      \* what initialize_dataset returned
    query,     \* arguments of the last get_best_score_with_meta call
    result,    \* what that call returned
    G,         \* the six module globals of hazard_mitigation_draft2: each is
               \* "None" or "snap", a reference to what initialize_dataset returned
    line,      \* the next of the assignments at rci_aggregate.py lines 40-45
    rd,        \* a thread inside get_zip_coverage_score
    th,        \* the threads inside get_best_score_with_meta, each at its line
    dd,        \* the frame of lines 27-29, and how often they have run on it
    rc         \* a call of calculate_rci: what its collaborators answer, what it returns

vars == <<dataset, pc, snap, query, result, G, line, rd, th, dd, rc>>

----------------------------------------------------------------------------
(* Bounds and input domains *)

MaxRecords == 2

MaxFrameRows == 3

NaT == 0

PopFloor == 1000

None == <<"<None>">>

\* An empty cell of the CSV as read_csv gives it: nan, not the str "".
NaNCell == <<"<nan>">>

StateNames == {<<"C", "A">>, <<"c", "a">>}
CountyNames == {<<"K">>, <<"L">>}
PlaceNames == {<<"P">>, <<"Q">>}
ApprovalDates == {NaT, 2019, 2021}
Populations == {0, 3000}

\* Rows that vary in everything the scores depend on ...
RawRecords ==
    [stateAbbreviation : StateNames, countyName : CountyNames,
     placeName : PlaceNames, planApprovalDate : {NaT, 2021},
     population : Populations]

\* ... and rows that vary in what the deduplication depends on.
DatedRecords ==
    [stateAbbreviation : StateNames, countyName : {<<"K">>},
     placeName : PlaceNames, planApprovalDate : ApprovalDates,
     population : {0}]

RECURSIVE SubsetsUpTo(_, _)
SubsetsUpTo(S, k) ==
    IF k = 0 THEN {{}}
    ELSE LET T == SubsetsUpTo(S, k - 1)
         IN  T \cup {t \cup {r} : t \in T, r \in S}

Datasets == SubsetsUpTo(RawRecords, MaxRecords) \cup SubsetsUpTo(DatedRecords, MaxRecords)

QueryStates == {None, <<"c", "a", " ">>, <<"Z">>}
QueryCounties == {None, <<" ", "K">>}
QueryPlaces == {None, <<"p", " ">>}

----------------------------------------------------------------------------
(* Python strings *)

UpperLetters == <<"A", "C", "K", "L", "P", "Q", "Z">>
LowerLetters == <<"a", "c", "k", "l", "p", "q", "z">>
\* The characters in code-point order; a nan cell sorts after every str.
Ascii == <<" ", ",">> \o UpperLetters \o LowerLetters \o NaNCell

IndexIn(seq, c) == CHOOSE i \in 1..Len(seq) : seq[i] = c

InSeq(seq, c) == \E i \in 1..Len(seq) : seq[i] = c

upper(s) ==
    [i \in 1..Len(s) |->
        IF InSeq(LowerLetters, s[i]) THEN UpperLetters[IndexIn(LowerLetters, s[i])]
        ELSE s[i]]

lower(s) ==
    [i \in 1..Len(s) |->
        IF InSeq(UpperLetters, s[i]) THEN LowerLetters[IndexIn(UpperLetters, s[i])]
        ELSE s[i]]

strip(s) ==
    LET nonblank == {i \in 1..Len(s) : s[i] # " "}
    IN  IF nonblank = {} THEN <<>>
        ELSE LET lo == CHOOSE i \in nonblank : \A j \in nonblank : i <= j
                 hi == CHOOSE i \in nonblank : \A j \in nonblank : i >= j
             IN  SubSeq(s, lo, hi)

\* Python's < on str: code-point order, a proper prefix first.
RECURSIVE StrLess(_, _)
StrLess(a, b) ==
    IF b = <<>> THEN FALSE
    ELSE IF a = <<>> THEN TRUE
    ELSE IF a[1] = b[1] THEN StrLess(Tail(a), Tail(b))
    ELSE IndexIn(Ascii, a[1]) < IndexIn(Ascii, b[1])

PairLess(a, b) == StrLess(a[1], b[1]) \/ (a[1] = b[1] /\ StrLess(a[2], b[2]))

\* s.split(",")[0]
split_first(s) ==
    LET commas == {i \in 1..Len(s) : s[i] = ","}
    IN  IF commas = {} THEN s
        ELSE SubSeq(s, 1, (CHOOSE i \in commas : \A j \in commas : i <= j) - 1)

_normNoStrip(s) == IF s = None THEN <<>> ELSE s

_norm(s) == IF s = None THEN <<>> ELSE strip(s)

----------------------------------------------------------------------------
(* float64 as exact rationals *)

RECURSIVE GCD(_, _)
GCD(a, b) == IF b = 0 THEN a ELSE GCD(b, a % b)

Abs(x) == IF x < 0 THEN -x ELSE x

NaN == [nan |-> TRUE, n |-> 0, d |-> 1]

Float(n, d) ==
    LET g == GCD(Abs(n), d)
    IN  [nan |-> FALSE, n |-> n \div g, d |-> d \div g]

Num(n) == Float(n, 1)

FAdd(a, b) == IF a.nan \/ b.nan THEN NaN ELSE Float(a.n * b.d + b.n * a.d, a.d * b.d)

FSub(a, b) == IF a.nan \/ b.nan THEN NaN ELSE Float(a.n * b.d - b.n * a.d, a.d * b.d)

FMul(a, b) == IF a.nan \/ b.nan THEN NaN ELSE Float(a.n * b.n, a.d * b.d)

\* x / 0 is taken only as 0 / 0 (log_max = log_min makes every numerator 0): nan.
FDiv(a, b) ==
    IF a.nan \/ b.nan \/ b.n = 0 THEN NaN
    ELSE IF b.n > 0 THEN Float(a.n * b.d, a.d * b.n)
    ELSE Float(-(a.n * b.d), a.d * (-b.n))

\* Python's None where a float is expected (a global not assigned yet).
NoneFloat == [nan |-> FALSE, n |-> 0, d |-> 0]

IsNone(x) == x.d = 0

\* == and <= on floats: every comparison with nan is False.  None equals
\* None and nothing else.
FEq(a, b) ==
    IF IsNone(a) \/ IsNone(b) THEN IsNone(a) /\ IsNone(b)
    ELSE ~a.nan /\ ~b.nan /\ a.n = b.n /\ a.d = b.d

FLeq(a, b) == ~a.nan /\ ~b.nan /\ a.n * b.d <= b.n * a.d

\* round(x, 2): to the nearest hundredth, a tie to the even one.
round2(x) ==
    IF x.nan THEN NaN
    ELSE LET n == x.n * 100
             q == n \div x.d
             r == n % x.d
             up == (2 * r > x.d) \/ (2 * r = x.d /\ q % 2 = 1)
         IN  Float(IF up THEN q + 1 ELSE q, 100)

\* np.log1p, in units of 1e-4, at the populations a cleaned row can have.
log1p(p) ==
    CASE p = 1000 -> Num(69088)
      [] p = 3000 -> Num(80067)
      [] p = 9000 -> Num(91051)

----------------------------------------------------------------------------
(* initialize_dataset *)

Range(s) == {s[i] : i \in 1..Len(s)}

\* planApprovalDate a sorts after b when descending, NaT (na_position) last.
Older(a, b) == (a = NaT /\ b # NaT) \/ (a # NaT /\ b # NaT /\ a < b)

\* df.sort_values(by="planApprovalDate", ascending=False): every order of the
\* rows that is descending in the date; rows of equal date come in any order.
sort_values(df) ==
    LET n == Cardinality(df)
    IN  {s \in [1..n -> df] :
            /\ \A i, j \in 1..n : i # j => s[i] # s[j]
            /\ \A i, j \in 1..n : i < j => ~Older(s[i].planApprovalDate, s[j].planApprovalDate)}

DedupKey(r) == <<r.stateAbbreviation, r.placeName>>

drop_duplicates_keep_last(s) ==
    LET keep == {i \in 1..Len(s) : ~\E j \in (i + 1)..Len(s) : DedupKey(s[j]) = DedupKey(s[i])}
        F[i \in 0..Len(s)] ==
            IF i = 0 THEN <<>>
            ELSE IF i \in keep THEN Append(F[i - 1], s[i]) ELSE F[i - 1]
    IN  F[Len(s)]

\* Only a row whose key is that of the row just before it is dropped.
drop_adjacent_duplicates(s) ==
    LET keep == {i \in 1..Len(s) : i = 1 \/ DedupKey(s[i - 1]) # DedupKey(s[i])}
        F[i \in 0..Len(s)] ==
            IF i = 0 THEN <<>>
            ELSE IF i \in keep THEN Append(F[i - 1], s[i]) ELSE F[i - 1]
    IN  F[Len(s)]

\* drop_duplicates(subset=["stateAbbreviation", "placeName"], keep="first")
drop_duplicates(s) ==
    LET keep == {i \in 1..Len(s) : ~\E j \in 1..(i - 1) : DedupKey(s[j]) = DedupKey(s[i])}
        F[i \in 0..Len(s)] ==
            IF i = 0 THEN <<>>
            ELSE IF i \in keep THEN Append(F[i - 1], s[i]) ELSE F[i - 1]
    IN  F[Len(s)]

\* to_numeric(...).fillna(0), then population <= 0 becomes 1000.  A raw
\* population of 0 stands for a missing, unparsable or non-positive cell.
clean_population(p) == IF p <= 0 THEN PopFloor ELSE p

SeqMin(s) ==
    IF s = <<>> THEN NaN
    ELSE LET i == CHOOSE i \in 1..Len(s) : \A j \in 1..Len(s) : FLeq(s[i], s[j]) IN s[i]

SeqMax(s) ==
    IF s = <<>> THEN NaN
    ELSE LET i == CHOOSE i \in 1..Len(s) : \A j \in 1..Len(s) : FLeq(s[j], s[i]) IN s[i]

\* The k-th smallest element of a sequence of floats.
Kth(s, k) ==
    LET i == CHOOSE i \in 1..Len(s) :
                 /\ Cardinality({j \in 1..Len(s) : ~FLeq(s[i], s[j])}) < k
                 /\ Cardinality({j \in 1..Len(s) : FLeq(s[j], s[i])}) >= k
    IN  s[i]

SeqMedian(s) ==
    LET n == Len(s)
    IN  IF n = 0 THEN NaN
        ELSE IF n % 2 = 1 THEN Kth(s, (n + 1) \div 2)
        ELSE FDiv(FAdd(Kth(s, n \div 2), Kth(s, n \div 2 + 1)), Num(2))

score_scaled_0_100(log_pop, log_min, log_max) ==
    IF FEq(log_max, log_min) THEN round2(Num(50))
    ELSE round2(FMul(FDiv(FSub(log_pop, log_min), FSub(log_max, log_min)), Num(100)))

score_unguarded(log_pop, log_min, log_max) ==
    round2(FAdd(FMul(FDiv(FSub(log_pop, log_min), FSub(log_max, log_min)), Num(99)), Num(1)))

\* Lines 44-48: the linear score of one row.
score_log_linear(log_pop, log_min, log_max) ==
    IF FEq(log_max, log_min) THEN round2(Num(50))
    ELSE round2(FAdd(FMul(FDiv(FSub(log_pop, log_min), FSub(log_max, log_min)), Num(99)), Num(1)))

FSum(s) ==
    LET F[i \in 0..Len(s)] == IF i = 0 THEN Num(0) ELSE FAdd(F[i - 1], s[i])
    IN  F[Len(s)]

\* np.average(x, weights=w) = sum(x * w) / sum(w)
average(x, w) ==
    FDiv(FSum([i \in 1..Len(x) |-> FMul(x[i], Num(w[i]))]), FSum([i \in 1..Len(w) |-> Num(w[i])]))

\* A set of keys as the sequence groupby(sort=True) yields: ascending.
RECURSIVE SortedStrs(_)
SortedStrs(S) ==
    IF S = {} THEN <<>>
    ELSE LET m == CHOOSE x \in S : \A y \in S : x = y \/ StrLess(x, y)
         IN  <<m>> \o SortedStrs(S \ {m})

RECURSIVE SortedPairs(_)
SortedPairs(S) ==
    IF S = {} THEN <<>>
    ELSE LET m == CHOOSE x \in S : \A y \in S : x = y \/ PairLess(x, y)
         IN  <<m>> \o SortedPairs(S \ {m})

\* Lines 54-61: one row per raw (stateAbbreviation, countyName); groupby
\* (dropna=True) leaves out the rows with a nan in the key.
county_group(latest) ==
    LET keyed == {r \in Range(latest) : r.stateAbbreviation # NaNCell /\ r.countyName # NaNCell}
        keys == SortedPairs({<<r.stateAbbreviation, r.countyName>> : r \in keyed})
    IN  [g \in 1..Len(keys) |->
            LET In(r) == <<r.stateAbbreviation, r.countyName>> = keys[g]
                rows == SelectSeq(latest, In)
            IN  [stateAbbreviation |-> keys[g][1],
                 countyName |-> keys[g][2],
                 county_pop |-> FSum([i \in 1..Len(rows) |-> Num(rows[i].population)]),
                 county_score_weighted |->
                     average([i \in 1..Len(rows) |-> rows[i].score_log_linear],
                             [i \in 1..Len(rows) |-> rows[i].population])]]

\* Lines 64-71: one row per raw stateAbbreviation that is not nan.
state_group(latest) ==
    LET keys == SortedStrs({r.stateAbbreviation : r \in Range(latest)} \ {NaNCell})
    IN  [g \in 1..Len(keys) |->
            LET In(r) == r.stateAbbreviation = keys[g]
                rows == SelectSeq(latest, In)
            IN  [stateAbbreviation |-> keys[g],
                 state_pop |-> FSum([i \in 1..Len(rows) |-> Num(rows[i].population)]),
                 state_score_weighted |->
                     average([i \in 1..Len(rows) |-> rows[i].score_log_linear],
                             [i \in 1..Len(rows) |-> rows[i].population])]]

\* sort_index() of lines 74-76: a stable sort of the keyed rows by key.
RECURSIVE StableSortIdx(_, _)
StableSortIdx(keyed, I) ==
    IF I = {} THEN <<>>
    ELSE LET m == CHOOSE i \in I : \A j \in I :
                      \/ PairLess(keyed[i].key, keyed[j].key)
                      \/ (keyed[i].key = keyed[j].key /\ i <= j)
         IN  <<keyed[m]>> \o StableSortIdx(keyed, I \ {m})

\* Empty cells turned into "" before the index is set.
town_index_fillna(latest) ==
    LET Fill(c) == IF c = NaNCell THEN <<>> ELSE c
        keyed == [i \in 1..Len(latest) |->
                     [key |-> <<upper(Fill(latest[i].stateAbbreviation)),
                                lower(Fill(latest[i].placeName))>>,
                      row |-> latest[i]]]
    IN  StableSortIdx(keyed, 1..Len(latest))

\* Lines 74-82: each index is the frame's rows under their normalised key;
\* .str.upper() and .str.lower() leave a nan cell nan.
town_index_of(latest) ==
    LET keyed == [i \in 1..Len(latest) |->
                     [key |-> <<upper(latest[i].stateAbbreviation), lower(latest[i].placeName)>>,
                      row |-> latest[i]]]
    IN  StableSortIdx(keyed, 1..Len(latest))

county_index_of(cg) ==
    [i \in 1..Len(cg) |->
        [key |-> <<upper(cg[i].stateAbbreviation), lower(cg[i].countyName)>>, row |-> cg[i]]]

state_index_of(sg) ==
    [i \in 1..Len(sg) |-> [key |-> upper(sg[i].stateAbbreviation), row |-> sg[i]]]

\* initialize_dataset from the sort onwards; df_sorted is the frame of line 28.
\* The frame `latest` is returned as the set of its rows: its row order is
\* read by the town index alone, which is built here from the ordered frame.
initialize_dataset(df_sorted) ==
    LET dedup == drop_duplicates(df_sorted)
        logs == [i \in 1..Len(dedup) |-> log1p(clean_population(dedup[i].population))]
        lmin == SeqMin(logs)
        lmax == SeqMax(logs)
        lmed == SeqMedian(logs)
        latest == [i \in 1..Len(dedup) |->
                      [stateAbbreviation |-> dedup[i].stateAbbreviation,
                       countyName |-> dedup[i].countyName,
                       placeName |-> dedup[i].placeName,
                       planApprovalDate |-> dedup[i].planApprovalDate,
                       population |-> clean_population(dedup[i].population),
                       log_pop |-> logs[i],
                       score_log_linear |-> score_log_linear(logs[i], lmin, lmax)]]
    IN  [latest |-> Range(latest),
         town_index |-> town_index_of(latest),
         county_index |-> county_index_of(county_group(latest)),
         state_index |-> state_index_of(state_group(latest)),
         log_min |-> lmin,
         log_max |-> lmax,
         log_median |-> lmed]

----------------------------------------------------------------------------
(* get_best_score_with_meta *)

HasKey(index, key) == \E i \in 1..Len(index) : index[i].key = key

\* index.loc[key], and .iloc[0] of it when several rows carry the key.
Loc(index, key) ==
    index[CHOOSE i \in 1..Len(index) :
              index[i].key = key /\ \A j \in 1..(i - 1) : index[j].key # key].row

fallback_unguarded(log_min, log_max, log_median) ==
    round2(FAdd(FMul(FDiv(FSub(log_median, log_min), FSub(log_max, log_min)), Num(99)), Num(1)))

\* Lines 141-147.
global_fallback(log_min, log_max, log_median) ==
    IF FEq(log_max, log_min) THEN round2(Num(50))
    ELSE round2(FAdd(FMul(FDiv(FSub(log_median, log_min), FSub(log_max, log_min)), Num(99)), Num(1)))

\* Lines 141-150.  With log_max == log_min false, a None among the three
\* makes one of the subtractions raise TypeError.
fallback_result(log_min, log_max, log_median) ==
    IF ~FEq(log_max, log_min) /\ (IsNone(log_min) \/ IsNone(log_max) \/ IsNone(log_median))
    THEN [score |-> NaN, level |-> "TypeError"]
    ELSE [score |-> global_fallback(log_min, log_max, log_median), level |-> "global_fallback"]

\* The county tried before the town.
get_best_score_county_first(state_abbrev, county_name, place_name, town_index, county_index, state_index, log_min, log_max, log_median) ==
    LET st == upper(_norm(state_abbrev))
        co == lower(_norm(county_name))
        pl == lower(_norm(place_name))
    IN  IF HasKey(county_index, <<st, co>>)
        THEN [score |-> Loc(county_index, <<st, co>>).county_score_weighted, level |-> "county"]
        ELSE IF HasKey(town_index, <<st, pl>>)
        THEN [score |-> Loc(town_index, <<st, pl>>).score_log_linear, level |-> "town"]
        ELSE IF HasKey(state_index, st)
        THEN [score |-> Loc(state_index, st).state_score_weighted, level |-> "state"]
        ELSE fallback_result(log_min, log_max, log_median)

\* The town's log_pop and the state's population read instead of the scores.
get_best_score_wrong_column(state_abbrev, county_name, place_name, town_index, county_index, state_index, log_min, log_max, log_median) ==
    LET st == upper(_norm(state_abbrev))
        co == lower(_norm(county_name))
        pl == lower(_norm(place_name))
    IN  IF HasKey(town_index, <<st, pl>>)
        THEN [score |-> Loc(town_index, <<st, pl>>).log_pop, level |-> "town"]
        ELSE IF HasKey(county_index, <<st, co>>)
        THEN [score |-> Loc(county_index, <<st, co>>).county_score_weighted, level |-> "county"]
        ELSE IF HasKey(state_index, st)
        THEN [score |-> Loc(state_index, st).state_pop, level |-> "state"]
        ELSE fallback_result(log_min, log_max, log_median)

\* Lines 88-150.  The try/except around each level never fires on a built
\* snapshot: population is finite and positive, the scores are floats.  On
\* an index that is None, `in None.index` raises AttributeError, the except
\* swallows it and the level is skipped, as on an index without the key: a
\* None index is passed as the empty sequence.
get_best_score_with_meta(state_abbrev, county_name, place_name, town_index, county_index, state_index, log_min, log_max, log_median) ==
    LET st == upper(_norm(state_abbrev))
        co == lower(_norm(county_name))
        pl == lower(_norm(place_name))
    IN  IF HasKey(town_index, <<st, pl>>)
        THEN [score |-> Loc(town_index, <<st, pl>>).score_log_linear, level |-> "town"]
        ELSE IF HasKey(county_index, <<st, co>>)
        THEN [score |-> Loc(county_index, <<st, co>>).county_score_weighted, level |-> "county"]
        ELSE IF HasKey(state_index, st)
        THEN [score |-> Loc(state_index, st).state_score_weighted, level |-> "state"]
        ELSE fallback_result(log_min, log_max, log_median)

resolve(q, s) ==
    get_best_score_with_meta(q[1], q[2], q[3], s.town_index, s.county_index,
                             s.state_index, s.log_min, s.log_max, s.log_median)

----------------------------------------------------------------------------
(* The program: load once, then answer queries *)

NoSnapshot ==
    [latest |-> {}, town_index |-> <<>>, county_index |-> <<>>, state_index |-> <<>>,
     log_min |-> NaN, log_max |-> NaN, log_median |-> NaN]

NoQuery == <<None, None, None>>

NoResult == [score |-> NaN, level |-> "none"]

\* Lines 184-189 of hazard_mitigation_draft2.py, in the order in which
\* rci_aggregate.py assigns them and get_zip_coverage_score reads them.
GlobalNames ==
    <<"TOWN_INDEX", "COUNTY_INDEX", "STATE_INDEX", "LOG_MIN", "LOG_MAX", "LOG_MEDIAN">>

GlobalsNone == [g \in Range(GlobalNames) |-> "None"]

Idle == [pc |-> "idle", geo |-> [place_name |-> None, county_name |-> None, state_code |-> None],
         loaded |-> <<>>, ret |-> NoResult]

\* The threads that call get_best_score_with_meta on the one snapshot.
Threads == {"t1", "t2"}

\* A thread outside the function: no arguments bound, nothing returned.
NotCalling ==
    [pc |-> "idle", q |-> NoQuery,
     log_min |-> NaN, log_max |-> NaN, log_median |-> NaN, ret |-> NoResult]

\* Lines 27-29 not run yet.
RawFrame == [pc |-> "raw", latest |-> <<>>, once |-> {}]

\* calculate_rci not called.
NotCalculating ==
    [pc |-> "idle", loc |-> FALSE, haz |-> NaN, debt |-> NaN, bridge |-> NaN,
     eal |-> [isstr |-> TRUE, val |-> NaN],
     ret |-> [error |-> FALSE, hazard_score |-> NaN, debt_revenue_score |-> NaN,
              bridge_score |-> NaN, eal_score |-> NaN, rci |-> NaN]]

\* Before line 36 of rci_aggregate.py has run.
NothingRun ==
    /\ pc = "start"
    /\ snap = NoSnapshot
    /\ query = NoQuery
    /\ result = NoResult
    /\ G = GlobalsNone
    /\ line = 40
    /\ rd = Idle
    /\ th = [t \in Threads |-> NotCalling]
    /\ dd = RawFrame
    /\ rc = NotCalculating

Init ==
    /\ dataset \in Datasets
    /\ NothingRun

\* rci_aggregate.py line 36: initialize_dataset(HAZARD_CSV) returns.  A CSV
\* without rows that still has its header line is read as an empty frame:
\* no step of lines 21-84 raises on it (an aggregation over zero groups
\* calls no function), and the statistics come out as NaN.
Initialize ==
    /\ pc = "start"
    /\ \E df_sorted \in sort_values(dataset) : snap' = initialize_dataset(df_sorted)
    /\ pc' = "ready"
    /\ UNCHANGED <<dataset, query, result, G, line, rd, th, dd, rc>>

\* Line 19: pd.read_csv raises EmptyDataError on a file that has no header
\* line either, and the import of rci_aggregate.py fails.
InitializeRaises ==
    /\ pc = "start"
    /\ dataset = {}
    /\ pc' = "failed"
    /\ UNCHANGED <<dataset, snap, query, result, G, line, rd, th, dd, rc>>

\* One call of get_best_score_with_meta on the snapshot.
Query ==
    /\ pc = "ready"
    /\ \E s \in QueryStates, c \in QueryCounties, p \in QueryPlaces :
          /\ query' = <<s, c, p>>
          /\ result' = resolve(<<s, c, p>>, snap)
    /\ pc' = "answered"
    /\ UNCHANGED <<dataset, snap, G, line, rd, th, dd, rc>>

Next == Initialize \/ InitializeRaises \/ Query

Spec == Init /\ [][Next]_vars

----------------------------------------------------------------------------
(* Publication of the snapshot, and get_zip_coverage_score beside it *)

\* What pgeocode answers for a ZIP code; place_name None is "no such ZIP".
GeoResults ==
    {[place_name |-> None, county_name |-> None, state_code |-> None],
     [place_name |-> <<"P", ",", "Q">>, county_name |-> <<"K">>, state_code |-> <<"C", "A">>],
     [place_name |-> <<"Z">>, county_name |-> None, state_code |-> <<"c", "a">>],
     [place_name |-> None, county_name |-> <<"K">>, state_code |-> <<"C", "A">>]}

\* The object a global refers to.
Deref(ref) ==
    IF ref = "snap" THEN snap
    ELSE [latest |-> {}, town_index |-> <<>>, county_index |-> <<>>, state_index |-> <<>>,
          log_min |-> NoneFloat, log_max |-> NoneFloat, log_median |-> NoneFloat]

\* Lines 154-180, given the answer of the geocoder and the six globals read.
get_zip_coverage_score(geo, TOWN_INDEX, COUNTY_INDEX, STATE_INDEX, LOG_MIN, LOG_MAX, LOG_MEDIAN) ==
    IF geo.place_name = None
    THEN get_best_score_with_meta(<<>>, <<>>, <<>>,
                                  Deref(TOWN_INDEX).town_index, Deref(COUNTY_INDEX).county_index,
                                  Deref(STATE_INDEX).state_index, Deref(LOG_MIN).log_min,
                                  Deref(LOG_MAX).log_max, Deref(LOG_MEDIAN).log_median)
    ELSE LET place_name == split_first(_norm(geo.place_name))
             county_name == lower(_norm(geo.county_name))
             state_abbrev == upper(_norm(geo.state_code))
             r == get_best_score_with_meta(state_abbrev, county_name, place_name,
                                  Deref(TOWN_INDEX).town_index, Deref(COUNTY_INDEX).county_index,
                                  Deref(STATE_INDEX).state_index, Deref(LOG_MIN).log_min,
                                  Deref(LOG_MAX).log_max, Deref(LOG_MEDIAN).log_median)
         IN  IF r.level = "TypeError" THEN r
             ELSE [score |-> round2(r.score), level |-> r.level]

\* rci_aggregate.py lines 40-45: one assignment to a global of hazard_mod.
Publish ==
    /\ pc = "ready"
    /\ line <= 45
    /\ G' = [G EXCEPT ![GlobalNames[line - 39]] = "snap"]
    /\ line' = line + 1
    /\ UNCHANGED <<dataset, pc, snap, query, result, rd, th, dd, rc>>

\* A thread enters get_zip_coverage_score; lines 155-157 run.
ReaderCall ==
    /\ rd.pc \in {"idle", "done"}
    /\ \E geo \in GeoResults :
          rd' = [pc |-> "load", geo |-> geo, loaded |-> <<>>, ret |-> NoResult]
    /\ UNCHANGED <<dataset, pc, snap, query, result, G, line, th, dd, rc>>

\* Lines 159 and 166-170: the arguments are evaluated left to right, each
\* global by a load of its own.
ReaderLoad ==
    /\ rd.pc = "load"
    /\ Len(rd.loaded) < Len(GlobalNames)
    /\ rd' = [rd EXCEPT !.loaded = Append(@, G[GlobalNames[Len(@) + 1]])]
    /\ UNCHANGED <<dataset, pc, snap, query, result, G, line, th, dd, rc>>

\* The call of get_best_score_with_meta on what was read, and the return.
ReaderReturn ==
    /\ rd.pc = "load"
    /\ Len(rd.loaded) = Len(GlobalNames)
    /\ rd' = [rd EXCEPT !.pc = "done",
                        !.ret = get_zip_coverage_score(rd.geo, rd.loaded[1], rd.loaded[2],
                                    rd.loaded[3], rd.loaded[4], rd.loaded[5], rd.loaded[6])]
    /\ UNCHANGED <<dataset, pc, snap, query, result, G, line, th, dd, rc>>

\* Rows with cells left empty in the CSV.
BlankRecords ==
    [stateAbbreviation : {NaNCell, <<"C", "A">>}, countyName : {NaNCell, <<"K">>},
     placeName : {NaNCell, <<"P">>}, planApprovalDate : {2021}, population : {3000}]

InitPublish ==
    /\ dataset \in SubsetsUpTo(RawRecords \cup DatedRecords \cup BlankRecords, 1)
    /\ NothingRun

NextPublish == Initialize \/ InitializeRaises \/ Publish \/ ReaderCall \/ ReaderLoad \/ ReaderReturn

SpecPublish == InitPublish /\ [][NextPublish]_vars

----------------------------------------------------------------------------
(* get_best_score_with_meta line by line, called from several threads *)

\* The rows under which concurrent callers find one snapshot in use.
CallRecords ==
    [stateAbbreviation : StateNames, countyName : {<<"K">>}, placeName : {<<"P">>},
     planApprovalDate : {2021}, population : Populations]

InitCalls ==
    /\ Init
    /\ dataset \in SubsetsUpTo(CallRecords, MaxRecords)

\* The frame a lookup leaves behind.  Lines 97-100, 113-116 and 128-131 are
\* `key in index.index`, `index.loc[key]`, `.iloc[0]` and `row.get(...)`:
\* none assigns to the frame, none is called with inplace=True, and the row
\* that .loc returns is a new object.
drop_after_loc(index, key) ==
    LET Other(e) == e.key # key IN SelectSeq(index, Other)

index_after_loc(index, key) == index

\* Lines 88-93: a thread enters; the arguments are bound.  The three indexes
\* are references to the frames of the snapshot, the three floats are values.
Call(t) ==
    /\ pc = "ready"
    /\ th[t].pc \in {"idle", "done"}
    /\ \E s \in QueryStates \ {None}, c \in QueryCounties, p \in QueryPlaces :
          th' = [th EXCEPT ![t] = [pc |-> "town", q |-> <<s, c, p>>,
                                   log_min |-> snap.log_min, log_max |-> snap.log_max,
                                   log_median |-> snap.log_median, ret |-> NoResult]]
    /\ UNCHANGED <<dataset, pc, snap, query, result, G, line, rd, dd, rc>>

\* Lines 95-109.
TownLevel(t) ==
    /\ th[t].pc = "town"
    /\ LET key == <<upper(_norm(th[t].q[1])), lower(_norm(th[t].q[3]))>>
       IN  IF HasKey(snap.town_index, key)
           THEN /\ th' = [th EXCEPT ![t].pc = "done",
                                    ![t].ret = [score |-> Loc(snap.town_index, key).score_log_linear,
                                                level |-> "town"]]
                /\ snap' = [snap EXCEPT !.town_index = index_after_loc(@, key)]
           ELSE /\ th' = [th EXCEPT ![t].pc = "county"]
                /\ snap' = snap
    /\ UNCHANGED <<dataset, pc, query, result, G, line, rd, dd, rc>>

\* Lines 111-124.
CountyLevel(t) ==
    /\ th[t].pc = "county"
    /\ LET key == <<upper(_norm(th[t].q[1])), lower(_norm(th[t].q[2]))>>
       IN  IF HasKey(snap.county_index, key)
           THEN /\ th' = [th EXCEPT ![t].pc = "done",
                                    ![t].ret = [score |-> Loc(snap.county_index, key).county_score_weighted,
                                                level |-> "county"]]
                /\ snap' = [snap EXCEPT !.county_index = index_after_loc(@, key)]
           ELSE /\ th' = [th EXCEPT ![t].pc = "state"]
                /\ snap' = snap
    /\ UNCHANGED <<dataset, pc, query, result, G, line, rd, dd, rc>>

\* Lines 126-139.
StateLevel(t) ==
    /\ th[t].pc = "state"
    /\ LET key == upper(_norm(th[t].q[1]))
       IN  IF HasKey(snap.state_index, key)
           THEN /\ th' = [th EXCEPT ![t].pc = "done",
                                    ![t].ret = [score |-> Loc(snap.state_index, key).state_score_weighted,
                                                level |-> "state"]]
                /\ snap' = [snap EXCEPT !.state_index = index_after_loc(@, key)]
           ELSE /\ th' = [th EXCEPT ![t].pc = "fallback"]
                /\ snap' = snap
    /\ UNCHANGED <<dataset, pc, query, result, G, line, rd, dd, rc>>

\* Lines 141-150.
Fallback(t) ==
    /\ th[t].pc = "fallback"
    /\ th' = [th EXCEPT ![t].pc = "done",
                        ![t].ret = fallback_result(th[t].log_min, th[t].log_max, th[t].log_median)]
    /\ UNCHANGED <<dataset, pc, snap, query, result, G, line, rd, dd, rc>>

NextCalls ==
    \/ Initialize
    \/ InitializeRaises
    \/ \E t \in Threads : Call(t)
    \/ \E t \in Threads : TownLevel(t)
    \/ \E t \in Threads : CountyLevel(t)
    \/ \E t \in Threads : StateLevel(t)
    \/ \E t \in Threads : Fallback(t)

SpecCalls == InitCalls /\ [][NextCalls]_vars

----------------------------------------------------------------------------
(* Lines 27-29 of initialize_dataset, run on a frame and on their own output *)

\* Rows of one state that share (stateAbbreviation, placeName) with the same
\* date or with another, and differ in the county.
DedupRecords ==
    [stateAbbreviation : {<<"C", "A">>}, countyName : CountyNames, placeName : PlaceNames,
     planApprovalDate : {NaT, 2021}, population : {0}]

InitDedup ==
    /\ dataset \in SubsetsUpTo(DedupRecords, MaxFrameRows)
    /\ NothingRun

\* Lines 28-29 on the rows read from the CSV.
SortAndDrop ==
    /\ dd.pc = "raw"
    /\ \E df_sorted \in sort_values(dataset) :
          LET latest == drop_duplicates(df_sorted)
          IN  dd' = [pc |-> "once", latest |-> latest, once |-> Range(latest)]
    /\ UNCHANGED <<dataset, pc, snap, query, result, G, line, rd, th, rc>>

\* Lines 28-29 again, on the frame they produced.
SortAndDropAgain ==
    /\ dd.pc = "once"
    /\ \E df_sorted \in sort_values(Range(dd.latest)) :
          dd' = [dd EXCEPT !.pc = "twice", !.latest = drop_duplicates(df_sorted)]
    /\ UNCHANGED <<dataset, pc, snap, query, result, G, line, rd, th, rc>>

NextDedup == SortAndDrop \/ SortAndDropAgain

SpecDedup == InitDedup /\ [][NextDedup]_vars

----------------------------------------------------------------------------
(* calculate_rci *)

\* What the collaborators answer.  get_zip_coverage_score always returns a
\* dict with "score", a float; get_relative_score returns None, 50 or a
\* float in [0, 100]; get_county_metric returns None or a float, nan turned
\* into None at its line 104; get_eal_score returns a float or a message.
HazardScores == {Num(1), Num(50), Float(7525, 100), Num(100)}
DebtScores == {NoneFloat, Num(0), Num(50), Float(100, 3)}
BridgeScores == {NoneFloat, Num(0), Float(125, 2)}
EalScores ==
    {[isstr |-> TRUE, val |-> NaN], [isstr |-> FALSE, val |-> Num(0)],
     [isstr |-> FALSE, val |-> Float(9999, 100)]}

\* [s for s in seq if s is not None]
RECURSIVE not_none(_)
not_none(seq) ==
    IF seq = <<>> THEN <<>>
    ELSE IF IsNone(seq[1]) THEN not_none(Tail(seq))
    ELSE <<seq[1]>> \o not_none(Tail(seq))

\* The sum divided by four, whatever is missing.
mean_of_four(scores) == FDiv(FSum(scores), Num(4))

\* np.mean
np_mean(scores) == FDiv(FSum(scores), Num(Len(scores)))

\* Lines 49-76, given what lines 51 and 56-61 got from the collaborators.
calculate_rci(loc, haz_score, debt_score, bridge_score, eal_score_val) ==
    IF ~loc
    THEN [error |-> TRUE, hazard_score |-> NaN, debt_revenue_score |-> NaN,
          bridge_score |-> NaN, eal_score |-> NaN, rci |-> NaN]
    ELSE LET eal_score == IF eal_score_val.isstr THEN NoneFloat ELSE eal_score_val.val
             scores == not_none(<<haz_score, debt_score, bridge_score, eal_score>>)
             rci == IF scores # <<>> THEN np_mean(scores) ELSE NoneFloat
         IN  [error |-> FALSE,
              hazard_score |-> haz_score,
              debt_revenue_score |-> debt_score,
              bridge_score |-> bridge_score,
              eal_score |-> eal_score,
              rci |-> IF ~IsNone(rci) THEN round2(rci) ELSE NoneFloat]

InitRci ==
    /\ dataset = {}
    /\ NothingRun

\* Lines 51 and 56-61: the collaborators are asked.
AskCollaborators ==
    /\ rc.pc = "idle"
    /\ \E loc \in BOOLEAN, h \in HazardScores, d \in DebtScores, b \in BridgeScores, e \in EalScores :
          rc' = [rc EXCEPT !.pc = "asked", !.loc = loc, !.haz = h, !.debt = d,
                           !.bridge = b, !.eal = e]
    /\ UNCHANGED <<dataset, pc, snap, query, result, G, line, rd, th, dd>>

\* Lines 52-53 and 62-76.
CalculateRci ==
    /\ rc.pc = "asked"
    /\ rc' = [rc EXCEPT !.pc = "returned",
                        !.ret = calculate_rci(rc.loc, rc.haz, rc.debt, rc.bridge, rc.eal)]
    /\ UNCHANGED <<dataset, pc, snap, query, result, G, line, rd, th, dd>>

NextRci == AskCollaborators \/ CalculateRci

SpecRci == InitRci /\ [][NextRci]_vars

----------------------------------------------------------------------------
(* The query as the resolver sees it, and the keys of the snapshot *)

Answered == pc = "answered"

Returned == pc \in {"ready", "answered"}

QState == upper(_norm(query[1]))
QCounty == lower(_norm(query[2]))
QPlace == lower(_norm(query[3]))

Keys(index) == {index[i].key : i \in 1..Len(index)}

TownHit == <<QState, QPlace>> \in Keys(snap.town_index)
CountyHit == <<QState, QCounty>> \in Keys(snap.county_index)
StateHit == QState \in Keys(snap.state_index)

Latest == snap.latest

\* C1: the level is that of the first matching index in the order town,
\* county, state; global_fallback exactly when none of the three matches.
C1_FirstMatchWins ==
    Answered =>
        /\ (TownHit => result.level = "town")
        /\ (result.level = "town" => TownHit)
        /\ (result.level = "county" <=> (~TownHit /\ CountyHit))
        /\ (result.level = "state" <=> (~TownHit /\ ~CountyHit /\ StateHit))
        /\ (result.level = "global_fallback" <=> (~TownHit /\ ~CountyHit /\ ~StateHit))

C1_Witness == Answered /\ TownHit /\ CountyHit /\ StateHit /\ result.level = "town"

\* C2: on a snapshot of a dataset with at least one record, a query that
\* matches no key gets level global_fallback and a score that is a number.
C2_FallbackComplete ==
    (Answered /\ dataset # {} /\ ~TownHit /\ ~CountyHit /\ ~StateHit) =>
        (result.level = "global_fallback" /\ ~result.score.nan)

C2_Witness ==
    /\ Answered /\ dataset # {} /\ query = <<None, None, None>>
    /\ result.level = "global_fallback" /\ ~result.score.nan

\* The exact value x rounds to r at two decimals: r is a hundredth and
\* |r - x| <= 0.005.
IsRound2(r, x) ==
    /\ ~r.nan /\ ~x.nan /\ 100 % r.d = 0
    /\ FLeq(FSub(r, x), Float(1, 200))
    /\ FLeq(FSub(x, r), Float(1, 200))

\* C3: the score is the stored value of the level reported: a matching
\* deduplicated record's score_log_linear, a matching aggregate's weighted
\* score, or the rescaled median (50 when log_max = log_min) at two decimals.
C3_ScoreOfLevel ==
    Answered =>
        /\ (result.level = "town" =>
               \E r \in Latest :
                   /\ upper(r.stateAbbreviation) = QState /\ lower(r.placeName) = QPlace
                   /\ result.score = r.score_log_linear)
        /\ (result.level = "county" =>
               \E i \in 1..Len(snap.county_index) :
                   /\ snap.county_index[i].key = <<QState, QCounty>>
                   /\ result.score = snap.county_index[i].row.county_score_weighted)
        /\ (result.level = "state" =>
               \E i \in 1..Len(snap.state_index) :
                   /\ snap.state_index[i].key = QState
                   /\ result.score = snap.state_index[i].row.state_score_weighted)
        /\ ((result.level = "global_fallback" /\ dataset # {}) =>
               IF snap.log_max = snap.log_min THEN result.score = Num(50)
               ELSE IsRound2(result.score,
                             FAdd(FMul(FDiv(FSub(snap.log_median, snap.log_min),
                                            FSub(snap.log_max, snap.log_min)), Num(99)), Num(1))))

C3_Witness ==
    /\ Answered /\ result.level = "state"
    /\ Cardinality(snap.latest) > 1
    /\ result.score \notin {Num(1), Num(50), Num(100)}

\* C4: on a snapshot of a non-empty dataset the level is one of the four
\* and the score lies in [1, 100].
C4_ScoreInRange ==
    (Answered /\ dataset # {}) =>
        /\ result.level \in {"town", "county", "state", "global_fallback"}
        /\ FLeq(Num(1), result.score)
        /\ FLeq(result.score, Num(100))

C4_Witness == Answered /\ dataset # {} /\ result.level = "town" /\ result.score = Num(1)

\* C5: after deduplication no two records share (stateAbbreviation,
\* placeName), every pair of the dataset is still represented, and the record
\* kept is a row of the dataset no row of its pair is more recent than, NaT
\* counting as older than every date.
C5_DedupKeepsLatest ==
    Returned =>
        /\ \A r1, r2 \in Latest : DedupKey(r1) = DedupKey(r2) => r1 = r2
        /\ \A x \in dataset : \E r \in Latest : DedupKey(r) = DedupKey(x)
        /\ \A r \in Latest :
               /\ \E x \in dataset :
                      /\ DedupKey(x) = DedupKey(r)
                      /\ x.planApprovalDate = r.planApprovalDate
                      /\ x.countyName = r.countyName
                      /\ clean_population(x.population) = r.population
               /\ \A x \in dataset :
                      DedupKey(x) = DedupKey(r) =>
                          ~Older(r.planApprovalDate, x.planApprovalDate)

C5_Witness ==
    /\ pc = "ready"
    /\ \E x, y \in dataset :
          /\ DedupKey(x) = DedupKey(y)
          /\ x.planApprovalDate = NaT /\ y.planApprovalDate # NaT
          /\ snap.latest = {[stateAbbreviation |-> y.stateAbbreviation,
                              countyName |-> y.countyName,
                              placeName |-> y.placeName,
                              planApprovalDate |-> y.planApprovalDate,
                              population |-> clean_population(y.population),
                              log_pop |-> log1p(clean_population(y.population)),
                              score_log_linear |-> Num(50)]}

\* C7: initialize_dataset never returns a snapshot for a dataset with no
\* records.
C7_EmptyDatasetFails == Returned => dataset # {}

\* The population-weighted mean of score_log_linear over a set of records.
RECURSIVE SumScoreTimesPop(_)
SumScoreTimesPop(T) ==
    IF T = {} THEN Num(0)
    ELSE LET r == CHOOSE r \in T : TRUE
         IN  FAdd(FMul(r.score_log_linear, Num(r.population)), SumScoreTimesPop(T \ {r}))

RECURSIVE SumPop(_)
SumPop(T) ==
    IF T = {} THEN Num(0)
    ELSE LET r == CHOOSE r \in T : TRUE
         IN  FAdd(Num(r.population), SumPop(T \ {r}))

WeightedMean(R) == FDiv(SumScoreTimesPop(R), SumPop(R))

\* C8: a county-level score is the population-weighted mean over all
\* deduplicated records whose upper-cased state and lower-cased county are
\* the key; a state-level score likewise over all records of the state.
C8_AggregateOverAll ==
    Answered =>
        /\ (result.level = "county" =>
               result.score =
                   WeightedMean({r \in Latest : /\ upper(r.stateAbbreviation) = QState
                                                /\ lower(r.countyName) = QCounty}))
        /\ (result.level = "state" =>
               result.score =
                   WeightedMean({r \in Latest : upper(r.stateAbbreviation) = QState}))

\* C9: when every deduplicated record has the same population after the
\* floor, every score_log_linear is 50.0 and every query returns 50.0.
SamePopulation == \A r1, r2 \in Latest : r1.population = r2.population

C9_DegenerateIsFifty ==
    (Returned /\ dataset # {} /\ SamePopulation) =>
        /\ \A r \in Latest : r.score_log_linear = Num(50)
        /\ (Answered => result.score = Num(50))

C9_Witness ==
    /\ Answered /\ SamePopulation /\ Cardinality(snap.latest) > 1
    /\ result.level = "global_fallback" /\ result.score = Num(50)

\* Other spellings of one argument that differ from it only in letter case,
\* in blanks around it, or in None standing for the empty string.
Spelling(a, k) ==
    LET t == IF a = None THEN <<>> ELSE strip(a)
    IN  CASE k = 1 -> <<" ">> \o upper(t)
          [] k = 2 -> lower(t) \o <<" ", " ">>
          [] k = 3 -> IF t = <<>> THEN None ELSE t

\* C10: queries that differ only in letter case, surrounding blanks or None
\* for the empty string get the same score and level.
C10_NormalisationInvariant ==
    Answered =>
        \A k \in 1..3 :
            /\ resolve(<<Spelling(query[1], k), query[2], query[3]>>, snap) = result
            /\ resolve(<<query[1], Spelling(query[2], k), query[3]>>, snap) = result
            /\ resolve(<<query[1], query[2], Spelling(query[3], k)>>, snap) = result
            /\ resolve(<<Spelling(query[1], k), Spelling(query[2], k), Spelling(query[3], k)>>,
                       snap) = result

C10_Witness ==
    /\ Answered /\ query = <<(<<"c", "a", " ">>), (<<" ", "K">>), (<<"p", " ">>)>>
    /\ result.level = "town"
    /\ resolve(<<(<<" ", "C", "A">>), (<<"k">>), (<<"P">>)>>, snap) = result

\* C6: a call of get_zip_coverage_score reads its six globals from one
\* snapshot: all six as published, or all six as they were before.
C6_ReadsOneSnapshot ==
    \A i, j \in 1..Len(rd.loaded) : rd.loaded[i] = rd.loaded[j]

\* C11: get_best_score_with_meta is read-only.  However the calls of the
\* threads follow one another or interleave, the snapshot stays the one
\* initialize_dataset returned, and every call that has returned has returned
\* what the function gives for its arguments on that snapshot alone.
C11_ReadOnlyQuery ==
    pc = "ready" =>
        \E df_sorted \in sort_values(dataset) :
            LET s == initialize_dataset(df_sorted)
            IN  /\ snap = s
                /\ \A t \in Threads :
                       th[t].pc = "done" => th[t].ret = resolve(th[t].q, s)

C11_Witness ==
    /\ th["t1"].pc = "done" /\ th["t1"].ret.level = "town"
    /\ th["t2"].pc = "done" /\ th["t2"].ret = th["t1"].ret
    /\ th["t1"].q = th["t2"].q
    /\ Cardinality(snap.latest) > 1

\* C12: deduplication is idempotent.  Sorting by approval date, descending,
\* and dropping duplicates of (stateAbbreviation, placeName) a second time, on
\* the output of the first, gives the same set of records, whichever way each
\* sort orders the rows of equal date.
C12_DedupIdempotent ==
    dd.pc = "twice" => Range(dd.latest) = dd.once

C12_Witness ==
    /\ dd.pc = "twice"
    /\ Cardinality(dataset) = 3
    /\ Cardinality(dd.once) = 2
    /\ \E x, y \in dataset :
          x # y /\ DedupKey(x) = DedupKey(y) /\ x.planApprovalDate = y.planApprovalDate

\* The components of a returned calculate_rci that are available.
Components == {"hazard_score", "debt_revenue_score", "bridge_score", "eal_score"}

Available == {c \in Components : ~IsNone(rc.ret[c])}

RECURSIVE SumOfComponents(_)
SumOfComponents(C) ==
    IF C = {} THEN Num(0)
    ELSE LET c == CHOOSE c \in C : TRUE
         IN  FAdd(rc.ret[c], SumOfComponents(C \ {c}))

C14_NoScoreBeforePublication ==
    (rd.pc = "done" /\ \A i \in 1..Len(rd.loaded) : rd.loaded[i] = "None") =>
        rd.ret.level = "TypeError"

\* The six globals as a call read them, all from the published snapshot.
ReadPublished == \A i \in 1..Len(rd.loaded) : rd.loaded[i] = "snap"

====
